---- MODULE Spec2Model ----
(***************************************************************************)
(* The metrics aggregation engine of threejs-webxr-stats-tool:             *)
(* PerformanceMonitor (utils/performance), the zustand store               *)
(* (store/performance.ts) and the frame hooks that drive them              *)
(* (hooks/useRealTimePerformance, hooks/useThreeJsStats).                  *)
(*                                                                         *)
(* JavaScript runs every callback to completion, so each hook callback,    *)
(* observer callback and timer callback is one atomic action.              *)
(*                                                                         *)
(* Numbers.  Durations are integers in microseconds (1 ms = 1000); a       *)
(* timer-query result is in nanoseconds, as the extension reports it.      *)
(* The decimal factors of the source (0.1, 0.05, 0.2, 0.02, 0.3, 0.8, 0.4) *)
(* become integer factors and divisors in this unit; a quotient that is    *)
(* not an integer is truncated.  Heap sizes are in megabytes.              *)
(***************************************************************************)
EXTENDS Integers, Sequences, FiniteSets, TLC

VARIABLES
    monitor,             \* store.monitor: Null or the PerformanceMonitor's fields
    globalMetrics,       \* store.globalMetrics when it is an object of its own
    globalMetricsIsLive, \* store.globalMetrics is the very object monitor.metrics
    performanceChanges,  \* store.performanceChanges
    isMonitoringEnabled, \* store.isMonitoringEnabled
    homeInitialized,     \* HomePage's isInitialized state
    fpsBuffer,           \* useRealTimePerformance: fpsBuffer.current
    checkInterval,       \* useRealTimeMemoryMonitor: checkInterval.current
    memoryHistory,       \* useRealTimeMemoryMonitor: memoryHistory.current
    gl,                  \* the WebGL side: the extension object and its queries
    heapApi,             \* performance.memory exists in this browser
    observerApi,         \* window.PerformanceObserver exists in this browser
    webxr,               \* the XR sessions, the callbacks registered on them
                         \* and the refs of useWebXRPerformanceMonitor
    replacedMonitors,    \* monitors the store held before the current one
    eventSeq,            \* number of PerformanceChange objects created so far
    disposeCalls,        \* number of dispose() calls made so far
    tick                 \* number of callbacks run so far

vars == <<monitor, globalMetrics, globalMetricsIsLive, performanceChanges,
          isMonitoringEnabled, homeInitialized, fpsBuffer, checkInterval,
          memoryHistory, gl, heapApi, observerApi, webxr, replacedMonitors,
          eventSeq, disposeCalls, tick>>

----------------------------------------------------------------------------
(* Bounds of the model *)

MaxTicks == 5
MaxGpuTicks == 7
MaxRingTicks == 37
MaxMemTicks == 62
MaxEstTicks == 3
MaxDisposeCalls == 2
MaxPendingProbes == 1
MaxWinTicks == 3840
MaxFpsTicks == 12
MaxFallbackTicks == 4
MaxStopTicks == 64
MaxXrTicks == 5
MaxSevTicks == 2
MaxFpsSevTicks == 2
MaxXrLifeTicks == 10
MaxXrSessions == 2
MaxLagTimeouts == 1
MaxNonFiniteTicks == 4
MaxQueryTicks == 5
MaxAsyncTicks == 7
MaxInitTicks == 5

(* Program constants *)

MaxChanges == 100
MaxTimerQueries == 5
MaxFrameTimings == 60
MaxFpsBuffer == 60
MaxMemoryHistory == 60
MaxLatencyQueue == 10
MaxMotionHistory == 10
MaxControllerInputHistory == 20
MemoryCheckFrames == 60
LeakTrendReadings == 10
SignificantPercent == 5
Ms == 1000
BaseGPUTime == 500
NsPerUnit == 1000

Null == [null |-> TRUE]
\* The outcome of a call that throws
Thrown == [thrown |-> TRUE]
NotReady == -1

----------------------------------------------------------------------------
(* Helpers *)

Abs(x) == IF x < 0 THEN -x ELSE x
Min(a, b) == IF a < b THEN a ELSE b
Max(a, b) == IF a > b THEN a ELSE b
Range(s) == {s[i] : i \in DOMAIN s}
Take(s, n) == SubSeq(s, 1, Min(n, Len(s)))
RECURSIVE SumSeq(_)
SumSeq(s) == IF s = <<>> THEN 0 ELSE Head(s) + SumSeq(Tail(s))
\* Mutant of PushCapped: pop() of the entry before the new one instead of
\* shift()
PushCapped_DropNewest(s, x, cap) ==
    IF Len(s) >= cap THEN Append(SubSeq(s, 1, Len(s) - 1), x) ELSE Append(s, x)
\* Array.push followed by shift() once the array is longer than cap
PushCapped(s, x, cap) ==
    LET t == Append(s, x) IN IF Len(t) > cap THEN Tail(t) ELSE t
\* reduce((a, b) => a + b, 0) / length
Average(s) == SumSeq(s) \div Len(s)

MetricKeys == {"drawCalls", "triangles", "geometries", "textures", "programs",
               "frameTime", "networkLatency"}

InitialMetrics ==
    [fps |-> 0, ms |-> 0, frameTime |-> 0,
     drawCalls |-> 0, triangles |-> 0, geometries |-> 0, textures |-> 0,
     programs |-> 0, networkLatency |-> 0,
     memoryUsed |-> 0, memoryLeaks |-> FALSE,
     gpuFragmentComplexity |-> 0, gpuFrameTime |-> 0,
     motionToPhotonDelay |-> 0, controllerInputLag |-> 0,
     xrFrameRate |-> 0, xrSessionInitTime |-> 0]

\* No XR session so far.  Sessions are numbered from 1 and 0 stands for null.
\*   session        renderer.xr.getSession()
\*   started        number of sessions started so far
\*   isXRActive     store.isXRActive
\*   isInitialized, xrSessionRef   refs of useWebXRPerformanceMonitor
\*   frameCallbacks the session of every pending requestAnimationFrame(
\*                  monitorFrame), one entry per callback
\*   listeners      the session of every inputsourceschange listener added
\*   initTimeouts   pending timeouts of initializeXRSession
\*   lagTimeouts    inputTime of every pending timeout of
\*                  trackControllerInputLag
\*   frames, initTimeWrites   monitorFrame calls and xrSessionInitTime writes
\*                  by the timeout since the last initializeXRSession
NoXr ==
    [session |-> 0, started |-> 0, isXRActive |-> FALSE,
     isInitialized |-> FALSE, xrSessionRef |-> 0,
     frameCallbacks |-> <<>>, listeners |-> <<>>,
     initTimeouts |-> 0, lagTimeouts |-> <<>>,
     frames |-> 0, initTimeWrites |-> 0]

----------------------------------------------------------------------------
(* PerformanceMonitor.  The operators below take and return a "world" w:   *)
(*   w.m    the monitor's fields                                           *)
(*   w.gl   the WebGL side (extension kind, queries created and deleted)   *)
(*   w.seq  the number of PerformanceChange objects created so far        *)

\* The fields a constructor leaves behind.  baseline is usedJSHeapSize at
\* construction (0 when performance.memory does not exist); hasObserver says
\* whether window has PerformanceObserver.  An observer field is "null",
\* "observing" or "disconnected"; the interval field is "active" or "cleared".
\* The constructor only schedules the first latency measurement; it runs as
\* LatencyProbe.
NewMonitor(baseline, hasObserver) ==
    [metrics |-> InitialMetrics,
     previousMetrics |-> [k \in MetricKeys |-> 0],
     changes |-> <<>>,
     frameTimings |-> <<>>,
     latencyQueue |-> <<>>,
     xrSession |-> 0,
     xrSessionStartTime |-> 0,
     lastXRFrameTime |-> 0,
     motionHistory |-> <<>>,
     controllerInputHistory |-> <<>>,
     memoryBaseline |-> baseline,
     glExtension |-> FALSE,
     gpuTimerAvailable |-> FALSE,
     timerQueries |-> <<>>,
     performanceObserver |-> IF hasObserver THEN "observing" ELSE "null",
     gcObserver |-> IF hasObserver THEN "observing" ELSE "null",
     latencyTestInterval |-> "active",
     pendingProbes |-> 1]

\* deltaPercent > p, for deltaPercent = (delta / old) * 100 and old # 0
PercentAbove(delta, old, p) ==
    IF old > 0 THEN delta * 100 > p * old ELSE delta * 100 < p * old
\* deltaPercent < p
PercentBelow(delta, old, p) ==
    IF old > 0 THEN delta * 100 < p * old ELSE delta * 100 > p * old

\* Mutant of getSeverity: every metric is read as higher-is-better
getSeverity_HigherIsBetter(metric, delta, old) ==
    IF PercentAbove(delta, old, 25) THEN "excellent"
    ELSE IF PercentAbove(delta, old, 10) THEN "good"
    ELSE IF PercentBelow(delta, old, -25) THEN "danger"
    ELSE IF PercentBelow(delta, old, -10) THEN "critical"
    ELSE "warning"

getSeverity(metric, delta, old) ==
    IF metric \in {"ms", "frameTime", "drawCalls", "triangles"}
    THEN IF PercentAbove(delta, old, 50) THEN "danger"
         ELSE IF PercentAbove(delta, old, 25) THEN "critical"
         ELSE IF PercentAbove(delta, old, 10) THEN "warning"
         ELSE IF PercentBelow(delta, old, -10) THEN "excellent"
         ELSE "good"
    ELSE IF metric = "fps"
    THEN IF PercentAbove(delta, old, 25) THEN "excellent"
         ELSE IF PercentAbove(delta, old, 10) THEN "good"
         ELSE IF PercentBelow(delta, old, -25) THEN "danger"
         ELSE IF PercentBelow(delta, old, -10) THEN "critical"
         ELSE "warning"
    ELSE IF PercentAbove(delta, old, 20) \/ PercentBelow(delta, old, -20)
         THEN "warning" ELSE "good"

\* Mutant of IsSignificant: Math.abs is dropped, so a decrease is never significant
IsSignificant_NoAbs(oldValue, value) ==
    /\ oldValue # 0
    /\ (value - oldValue) * 100 > SignificantPercent * oldValue

\* oldValue !== 0 && Math.abs(deltaPercent) > 5
IsSignificant(oldValue, value) ==
    /\ oldValue # 0
    /\ Abs(value - oldValue) * 100 > SignificantPercent * Abs(oldValue)

\* this.changes.unshift(change), then slice(0, 100) when longer than 100
UnshiftChange(changes, change) ==
    LET c == <<change>> \o changes
    IN  IF Len(c) > MaxChanges THEN SubSeq(c, 1, MaxChanges) ELSE c

updateMetric(w, key, value) ==
    LET oldValue == w.m.previousMetrics[key]
        change == [seq |-> w.seq + 1, metric |-> key, oldValue |-> oldValue,
                   newValue |-> value,
                   severity |-> getSeverity(key, value - oldValue, oldValue)]
        emit == IsSignificant(oldValue, value)
    IN  [w EXCEPT
           !.seq = IF emit THEN w.seq + 1 ELSE w.seq,
           !.m.changes = IF emit THEN UnshiftChange(w.m.changes, change)
                         ELSE w.m.changes,
           !.m.previousMetrics[key] = w.m.metrics[key],
           !.m.metrics[key] = value]

\* The raw estimate of estimateGPUTime from the metrics mt, in microseconds
estimatedGPUTime(mt) ==
    BaseGPUTime + mt.drawCalls * 100 + mt.triangles \div 20
    + mt.gpuFragmentComplexity * 2 + mt.textures * 20

\* Mutant of estimateGPUTime: the raw estimate is not smoothed
estimateGPUTime_NoSmoothing(w) ==
    LET mt == w.m.metrics
    IN  [w EXCEPT !.m.metrics.gpuFrameTime =
            Max(BaseGPUTime, Min(estimatedGPUTime(mt), (mt.frameTime * 8) \div 10))]

\* Mutant of estimateGPUTime: the bounds are not applied
estimateGPUTime_NoClamp(w) ==
    LET mt == w.m.metrics
    IN  [w EXCEPT !.m.metrics.gpuFrameTime =
            (mt.gpuFrameTime * 7 + estimatedGPUTime(mt) * 3) \div 10]

\* Fallback estimator; every quantity in microseconds
estimateGPUTime(w) ==
    LET mt == w.m.metrics
        smoothed == (mt.gpuFrameTime * 7 + estimatedGPUTime(mt) * 3) \div 10
        bounded == Max(BaseGPUTime, Min(smoothed, (mt.frameTime * 8) \div 10))
        final == IF mt.frameTime > 0 /\ bounded = 0
                 THEN Max(BaseGPUTime, (mt.frameTime * 4) \div 10)
                 ELSE bounded
    IN  [w EXCEPT !.m.metrics.gpuFrameTime = final]

detectMemoryLeaks(w) ==
    [w EXCEPT !.m.metrics.memoryLeaks =
        (w.m.metrics.memoryUsed > w.m.memoryBaseline * 2)]

----------------------------------------------------------------------------
(* The timer-query extension.  gl.ext is the kind of object getExtension   *)
(* returns: "none" is null, "full" has every method the monitor calls, and *)
(* the other kinds lack the one method their name says.  Query handles are *)
(* numbered in creation order: gl.created is the last handle created,      *)
(* gl.deleted the handles deleteQuery was called on, gl.evicted the        *)
(* handles the monitor shifted out of a full pool.  gl.active is the       *)
(* handle of the query beginQuery opened and endQuery has not closed yet   *)
(* (0 when none is open), and gl.misuse collects the calls the extension   *)
(* would answer with INVALID_OPERATION.                                    *)

ExtKinds == {"none", "full", "noCreateQuery", "noBeginQuery", "noEndQuery",
             "noGetQueryParameter", "noDeleteQuery", "throwGetQueryParameter"}

\* typeof this.glExtension.<method> === "function"
HasMethod(kind, method) ==
    /\ kind # "none"
    /\ kind # "no" \o method

\* this.glExtension.<method>(...) throws
Throws(kind, method) == kind = "throw" \o method

\* The kinds whose beginQuery or endQuery is present and throws
ThrowingKinds == {"throwBeginQuery", "throwEndQuery"}

NewGl(kind) == [ext |-> kind, created |-> 0, deleted |-> {}, evicted |-> {},
                active |-> 0, misuse |-> {}]

\* this.glExtension.beginQuery(TIME_ELAPSED_EXT, q)
beginQuery(g, q) ==
    [g EXCEPT !.active = q,
              !.misuse = IF g.active # 0 THEN @ \cup {"beginWhileOpen"} ELSE @]

\* Mutant of endGPUTiming: endQuery is called whether or not timing is on
endGPUTiming_AlwaysEnds(w) ==
    IF ~w.m.glExtension THEN w
    ELSE [w EXCEPT !.gl = [w.gl EXCEPT !.active = 0,
              !.misuse = IF w.gl.active = 0 THEN @ \cup {"endWhileClosed"}
                         ELSE @]]

\* this.glExtension.endQuery(TIME_ELAPSED_EXT)
endQuery(g) ==
    [g EXCEPT !.active = 0,
              !.misuse = IF g.active = 0 THEN @ \cup {"endWhileClosed"} ELSE @]

\* this.glExtension.getQueryParameter(q, ...)
getQueryParameter(g, q) ==
    [g EXCEPT !.misuse = IF q \in g.deleted THEN @ \cup {"pollDeleted"} ELSE @]

\* this.glExtension.deleteQuery(q), behind its typeof guard
deleteQuery(g, q) ==
    IF HasMethod(g.ext, "DeleteQuery")
    THEN [g EXCEPT !.deleted = g.deleted \cup {q}] ELSE g

initializeGPUMonitoring(w) ==
    IF w.gl.ext = "none"
    THEN [w EXCEPT !.m.gpuTimerAvailable = FALSE]
    ELSE IF ~HasMethod(w.gl.ext, "CreateQuery")
    \* calling the missing createQuery throws; the inner catch turns timing off
    THEN [w EXCEPT !.m.glExtension = TRUE, !.m.gpuTimerAvailable = FALSE]
    ELSE LET testQuery == w.gl.created + 1
         IN  [w EXCEPT !.m.glExtension = TRUE, !.m.gpuTimerAvailable = TRUE,
                       !.gl = deleteQuery([w.gl EXCEPT !.created = testQuery],
                                          testQuery)]

\* The filter of processGPUQueries over the pool s.  polls[i] is what
\* getQueryParameter reports for the i-th pooled query in this pass: NotReady,
\* or the elapsed nanoseconds.  acc carries the pool kept so far, the WebGL side
\* and gpuFrameTime.
RECURSIVE DrainQueries(_, _, _, _)
DrainQueries(s, polls, i, acc) ==
    IF i > Len(s) THEN acc
    ELSE IF ~HasMethod(acc.gl.ext, "GetQueryParameter")
    THEN DrainQueries(s, polls, i + 1,
             [acc EXCEPT !.kept = Append(acc.kept, s[i])])
    ELSE IF polls[i] # NotReady
    THEN DrainQueries(s, polls, i + 1,
             [acc EXCEPT !.gpuFrameTime = polls[i] \div NsPerUnit,
                         !.gl = deleteQuery(getQueryParameter(acc.gl, s[i]),
                                            s[i])])
    ELSE DrainQueries(s, polls, i + 1,
             [acc EXCEPT !.kept = Append(acc.kept, s[i]),
                         !.gl = getQueryParameter(acc.gl, s[i])])

processGPUQueries(w, polls) ==
    IF ~w.m.glExtension \/ ~w.m.gpuTimerAvailable
    THEN estimateGPUTime(w)
    ELSE IF w.m.timerQueries # <<>> /\ Throws(w.gl.ext, "GetQueryParameter")
    \* the filter throws at the first pooled query, before the pool is
    \* reassigned; the catch estimates and leaves gpuTimerAvailable as it is
    THEN estimateGPUTime(w)
    ELSE LET r == DrainQueries(w.m.timerQueries, polls, 1,
                      [kept |-> <<>>, gl |-> w.gl,
                       gpuFrameTime |-> w.m.metrics.gpuFrameTime])
             drained == [w EXCEPT !.m.timerQueries = r.kept, !.gl = r.gl,
                                  !.m.metrics.gpuFrameTime = r.gpuFrameTime]
         IN  IF r.kept = <<>> THEN estimateGPUTime(drained) ELSE drained

\* Mutant of PoolQuery: the pool is not capped
PoolQuery_NoCap(w, query) ==
    [w EXCEPT !.m.timerQueries = Append(w.m.timerQueries, query)]

\* push, then shift() and deleteQuery once more than 5 handles are pooled
PoolQuery(w, query) ==
    LET pushed == Append(w.m.timerQueries, query)
    IN  IF Len(pushed) > MaxTimerQueries
        THEN [w EXCEPT !.m.timerQueries = Tail(pushed),
                       !.gl = deleteQuery(
                                [w.gl EXCEPT !.evicted = w.gl.evicted
                                                           \cup {Head(pushed)}],
                                Head(pushed))]
        ELSE [w EXCEPT !.m.timerQueries = pushed]

measureGPUTiming(w, xrPresenting, polls) ==
    IF ~w.m.glExtension \/ ~w.m.gpuTimerAvailable THEN w
    ELSE IF ~HasMethod(w.gl.ext, "CreateQuery")
    THEN [w EXCEPT !.m.gpuTimerAvailable = FALSE]
    ELSE IF xrPresenting THEN w
    ELSE LET p == processGPUQueries(w, polls)
             query == p.gl.created + 1
             q == [p EXCEPT !.gl.created = query]
         IN  IF HasMethod(q.gl.ext, "BeginQuery")
                /\ ~Throws(q.gl.ext, "BeginQuery")
             THEN PoolQuery([q EXCEPT !.gl = beginQuery(q.gl, query)], query)
             \* beginQuery missing: the else branch; beginQuery throws: the
             \* catch.  Both turn timing off and leave the new query alone.
             ELSE [q EXCEPT !.m.gpuTimerAvailable = FALSE]

updateGPUMetrics(w, info, xrPresenting, polls) ==
    LET c == [w EXCEPT !.m.metrics.gpuFragmentComplexity = info.programs * 100]
    IN  IF c.m.gpuTimerAvailable /\ c.m.glExtension
        THEN measureGPUTiming(c, xrPresenting, polls)
        ELSE c

updateRendererStats(w, info, xrPresenting, polls) ==
    LET u1 == updateMetric(w, "drawCalls", info.calls)
        u2 == updateMetric(u1, "triangles", info.triangles)
        u3 == updateMetric(u2, "geometries", info.geometries)
        u4 == updateMetric(u3, "textures", info.textures)
        u5 == updateMetric(u4, "programs", info.programs)
        u6 == IF ~u5.m.glExtension THEN initializeGPUMonitoring(u5) ELSE u5
        u7 == updateGPUMetrics(u6, info, xrPresenting, polls)
    IN  IF u7.m.metrics.gpuFrameTime = 0 /\ u7.m.metrics.frameTime > 0
        THEN estimateGPUTime(u7) ELSE u7

endGPUTiming(w) ==
    IF ~w.m.glExtension \/ ~w.m.gpuTimerAvailable THEN w
    ELSE IF HasMethod(w.gl.ext, "EndQuery") /\ ~Throws(w.gl.ext, "EndQuery")
    THEN [w EXCEPT !.gl = endQuery(w.gl)]
    ELSE [w EXCEPT !.m.gpuTimerAvailable = FALSE]

\* end(): elapsed is performance.now() - lastFrameTime, heapNow the heap reading.
\* stats.js draws its panels on canvases that have no children, so the two
\* optional chains of updateFrameMetrics yield undefined and fps and ms stay.
end(w, elapsed, heapNow, hasHeapApi) ==
    LET timings == PushCapped(w.m.frameTimings, elapsed, MaxFrameTimings)
        f == [w EXCEPT !.m.frameTimings = timings,
                       !.m.metrics.frameTime = Average(timings)]
        g == IF hasHeapApi THEN [f EXCEPT !.m.metrics.memoryUsed = heapNow]
             ELSE f
    IN  detectMemoryLeaks(g)

\* observer.disconnect(); on null it throws a TypeError
disconnect(observer) == IF observer = "null" THEN Thrown ELSE "disconnected"

\* Mutant of dispose: the null checks are dropped
dispose_NoNullCheck(m) ==
    IF disconnect(m.performanceObserver) = Thrown
       \/ disconnect(m.gcObserver) = Thrown
    THEN Thrown
    ELSE [m EXCEPT !.performanceObserver = "disconnected",
                   !.gcObserver = "disconnected",
                   !.latencyTestInterval = "cleared"]

\* dispose(): disconnect the observers that exist, clear the interval if set
dispose(m) ==
    [m EXCEPT !.performanceObserver =
                 IF @ # "null" THEN disconnect(@) ELSE @,
              !.gcObserver = IF @ # "null" THEN disconnect(@) ELSE @,
              !.latencyTestInterval = IF @ # "null" THEN "cleared" ELSE @]

----------------------------------------------------------------------------
(* The store *)

updateGlobalMetrics(metrics) == metrics

addPerformanceChange(list, change) == Take(<<change>> \o list, MaxChanges)

\* monitor.changes.forEach(change => addPerformanceChange(change))
RECURSIVE ForwardChanges(_, _)
ForwardChanges(list, changes) ==
    IF changes = <<>> THEN list
    ELSE ForwardChanges(addPerformanceChange(list, Head(changes)), Tail(changes))

\* What a consumer reads as store.globalMetrics
StoreGlobalMetrics ==
    IF globalMetricsIsLive /\ monitor # Null THEN monitor.metrics
    ELSE globalMetrics

World == [m |-> monitor, gl |-> gl, seq |-> eventSeq]

\* One callback runs; bound caps the length of a run
Advance(bound) == tick < bound /\ tick' = tick + 1

HookVars == <<fpsBuffer, checkInterval, memoryHistory>>
StoreVars == <<globalMetrics, globalMetricsIsLive, performanceChanges>>
\* What the callbacks of the monitor and of the frame drivers leave alone: the
\* browser's APIs, the XR session lifecycle and the replaced monitors
EnvVars == <<heapApi, observerApi, webxr, replacedMonitors>>

----------------------------------------------------------------------------
(* Monitor creation *)

Baselines(HeapSizes) == IF heapApi THEN HeapSizes ELSE {0}

\* The mount effects of useRealTimePerformance, useThreeJsStats and
\* GeneralStatsComponent: create a monitor when the store holds none
HookInitializeMonitor(baseline) ==
    /\ monitor = Null
    /\ monitor' = NewMonitor(baseline, observerApi)
    /\ UNCHANGED <<StoreVars, isMonitoringEnabled, homeInitialized, HookVars,
                   gl, EnvVars, eventSeq, disposeCalls>>

\* HomePage's mount effect: initializeMonitor() once, whatever the store holds.
\* A replaced monitor is not disposed; a snapshot that aliased its metrics
\* keeps the values it had.
HomePageInitializeMonitor(baseline) ==
    /\ ~homeInitialized
    /\ homeInitialized' = TRUE
    /\ monitor' = NewMonitor(baseline, observerApi)
    /\ replacedMonitors' = IF monitor = Null THEN replacedMonitors
                           ELSE Append(replacedMonitors, monitor)
    /\ globalMetrics' = StoreGlobalMetrics
    /\ globalMetricsIsLive' = FALSE
    /\ UNCHANGED <<performanceChanges, isMonitoringEnabled, HookVars,
                   gl, heapApi, observerApi, webxr, eventSeq, disposeCalls>>

----------------------------------------------------------------------------
(* Frame passes *)

\* What getQueryParameter may report for each pooled query in one pass
Polls(Results) ==
    IF monitor = Null THEN {<<>>}
    ELSE [1..Len(monitor.timerQueries) -> {NotReady} \cup Results]

\* 1000 / deltaTime in thousandths of a frame per second
FpsOf(deltaTime) == (1000000 * Ms) \div deltaTime
\* Math.round of a value in thousandths
RoundMilli(x) == (x + 500) \div 1000

\* useRealTimePerformance: the useFrame callback
RealTimePass(deltaTime, info, xrPresenting, polls) ==
    /\ isMonitoringEnabled
    /\ monitor # Null
    /\ IF deltaTime > 0
       THEN LET buf == PushCapped(fpsBuffer, FpsOf(deltaTime), MaxFpsBuffer)
                w0 == [World EXCEPT
                         !.m.metrics.fps = RoundMilli(Average(buf)),
                         !.m.metrics.ms = deltaTime,
                         !.m.metrics.frameTime = deltaTime]
                w1 == endGPUTiming(
                          updateRendererStats(w0, info, xrPresenting, polls))
            IN  /\ fpsBuffer' = buf
                /\ globalMetrics' = updateGlobalMetrics(w1.m.metrics)
                /\ globalMetricsIsLive' = FALSE
                /\ performanceChanges' =
                       ForwardChanges(performanceChanges, w1.m.changes)
                /\ monitor' = [w1.m EXCEPT !.changes = <<>>]
                /\ gl' = w1.gl
                /\ eventSeq' = w1.seq
       ELSE UNCHANGED <<fpsBuffer, StoreVars, monitor, gl, eventSeq>>
    /\ UNCHANGED <<isMonitoringEnabled, homeInitialized, checkInterval,
                   memoryHistory, EnvVars, disposeCalls>>

\* useThreeJsStats: the useFrame callback, on a frame where updateInterval
\* has elapsed (on other frames it changes nothing)
ThreeJsStatsPass(info, xrPresenting, polls, elapsed, heapNow) ==
    /\ isMonitoringEnabled
    /\ monitor # Null
    /\ LET w1 == endGPUTiming(
                     updateRendererStats(World, info, xrPresenting, polls))
           w2 == end(w1, elapsed, heapNow, heapApi)
       IN  /\ globalMetrics' = updateGlobalMetrics(w1.m.metrics)
           /\ globalMetricsIsLive' = TRUE
           /\ performanceChanges' =
                  ForwardChanges(performanceChanges, w1.m.changes)
           /\ monitor' = w2.m
           /\ gl' = w2.gl
           /\ eventSeq' = w2.seq
    /\ UNCHANGED <<isMonitoringEnabled, homeInitialized, HookVars, EnvVars,
                   disposeCalls>>

HeapLimit == 4000

\* useRealTimeMemoryMonitor: the useFrame callback
MemoryMonitorPass(heapNow) ==
    /\ monitor # Null
    /\ IF checkInterval + 1 >= MemoryCheckFrames
       THEN /\ checkInterval' = 0
            /\ IF heapApi
               THEN LET hist == PushCapped(memoryHistory, heapNow,
                                           MaxMemoryHistory)
                        recent == SubSeq(hist, Len(hist) - LeakTrendReadings + 1,
                                         Len(hist))
                        trend == recent[Len(recent)] - recent[1]
                        m1 == [monitor EXCEPT !.metrics.memoryUsed = heapNow]
                        m2 == IF Len(hist) >= LeakTrendReadings
                              THEN [m1 EXCEPT !.metrics.memoryLeaks =
                                                  (trend * 10 > HeapLimit)]
                              ELSE m1
                    IN  /\ memoryHistory' = hist
                        /\ monitor' = m2
                        /\ globalMetrics' = updateGlobalMetrics(m2.metrics)
                        /\ globalMetricsIsLive' = FALSE
               ELSE UNCHANGED <<memoryHistory, monitor, globalMetrics,
                                globalMetricsIsLive>>
       ELSE /\ checkInterval' = checkInterval + 1
            /\ UNCHANGED <<memoryHistory, monitor, globalMetrics,
                           globalMetricsIsLive>>
    /\ UNCHANGED <<performanceChanges, isMonitoringEnabled, homeInitialized,
                   fpsBuffer, gl, EnvVars, eventSeq, disposeCalls>>

----------------------------------------------------------------------------
(* Asynchronous sources and controls *)

\* The PerformanceObserver callback for one "measure" entry
PerformanceObserverMeasure(duration) ==
    /\ monitor # Null
    /\ monitor.performanceObserver = "observing"
    /\ LET w1 == updateMetric(World, "frameTime", duration)
       IN  monitor' = w1.m /\ eventSeq' = w1.seq
    /\ UNCHANGED <<StoreVars, isMonitoringEnabled, homeInitialized, HookVars,
                   gl, EnvVars, disposeCalls>>

\* The setInterval callback: measureNetworkLatency() schedules its
\* measurement on an idle callback (or a zero timeout)
LatencyInterval ==
    /\ monitor # Null
    /\ monitor.latencyTestInterval = "active"
    /\ monitor.pendingProbes < MaxPendingProbes
    /\ monitor' = [monitor EXCEPT !.pendingProbes = monitor.pendingProbes + 1]
    /\ UNCHANGED <<StoreVars, isMonitoringEnabled, homeInitialized, HookVars,
                   gl, EnvVars, eventSeq, disposeCalls>>

\* measureLatency, the scheduled measurement: latency in milliseconds
LatencyProbe(latency) ==
    /\ monitor # Null
    /\ monitor.pendingProbes > 0
    /\ LET q == PushCapped(monitor.latencyQueue, latency, MaxLatencyQueue)
       IN  monitor' = [monitor EXCEPT !.latencyQueue = q,
                                      !.metrics.networkLatency = Average(q),
                                      !.pendingProbes = monitor.pendingProbes - 1]
    /\ UNCHANGED <<StoreVars, isMonitoringEnabled, homeInitialized, HookVars,
                   gl, EnvVars, eventSeq, disposeCalls>>

Dispose ==
    /\ monitor # Null
    /\ disposeCalls < MaxDisposeCalls
    /\ monitor' = dispose(monitor)
    /\ disposeCalls' = disposeCalls + 1
    /\ UNCHANGED <<StoreVars, isMonitoringEnabled, homeInitialized, HookVars,
                   gl, EnvVars, eventSeq>>

\* toggleMonitoring, startMonitoring, stopMonitoring
ToggleMonitoring ==
    /\ isMonitoringEnabled' = ~isMonitoringEnabled
    /\ UNCHANGED <<monitor, StoreVars, homeInitialized, HookVars, gl, EnvVars,
                   eventSeq, disposeCalls>>

----------------------------------------------------------------------------
(* WebXR *)

\* reduce((sum, event) => sum + (event.processed - event.timestamp), 0) / length
AverageDelay(h) ==
    SumSeq([i \in DOMAIN h |-> h[i].processed - h[i].timestamp]) \div Len(h)

\* initializeXRSession, the part that writes the monitor's fields: attaches
\* the session at time now.  The listener, the first frame request and the
\* timeout it registers are kept in webxr.
initializeXRSession(m, session, now) ==
    [m EXCEPT !.xrSession = session,
              !.xrSessionStartTime = now,
              !.metrics.xrSessionInitTime = 0]

trackMotionToPhotonDelay(m, currentTime, processed) ==
    LET h == PushCapped(m.motionHistory,
                        [timestamp |-> currentTime, processed |-> processed],
                        MaxMotionHistory)
    IN  [m EXCEPT !.motionHistory = h,
                  !.metrics.motionToPhotonDelay = AverageDelay(h)]

\* startMonitoring and stopMonitoring of useThreeJsStats
startMonitoring ==
    /\ isMonitoringEnabled' = TRUE
    /\ UNCHANGED <<monitor, StoreVars, homeInitialized, HookVars, gl, EnvVars,
                   eventSeq, disposeCalls>>

stopMonitoring ==
    /\ isMonitoringEnabled' = FALSE
    /\ UNCHANGED <<monitor, StoreVars, homeInitialized, HookVars, gl, EnvVars,
                   eventSeq, disposeCalls>>

\* useWebXRPerformanceMonitor: the useFrame callback.  sessionPresent says
\* that the store's isXRActive is set and renderer.xr has a session that the
\* hook has not attached yet.  The callback does not read isMonitoringEnabled.
WebXRMonitorPass(sessionPresent) ==
    /\ monitor # Null
    /\ LET m1 == IF sessionPresent /\ monitor.xrSession = 0
                 THEN initializeXRSession(monitor, 1, tick) ELSE monitor
       IN  /\ monitor' = m1
           /\ globalMetrics' = updateGlobalMetrics(m1.metrics)
           /\ globalMetricsIsLive' = FALSE
    /\ UNCHANGED <<performanceChanges, isMonitoringEnabled, homeInitialized,
                   HookVars, gl, EnvVars, eventSeq, disposeCalls>>

\* monitorFrame, the session's requestAnimationFrame callback
XRFrame(time, processed, hasInputSources) ==
    /\ monitor # Null
    /\ monitor.xrSession # 0
    /\ LET m1 == IF monitor.lastXRFrameTime > 0 /\ hasInputSources
                 THEN trackMotionToPhotonDelay(monitor, time, processed)
                 ELSE monitor
       IN  monitor' = [m1 EXCEPT !.lastXRFrameTime = time]
    /\ UNCHANGED <<StoreVars, isMonitoringEnabled, homeInitialized, HookVars,
                   gl, EnvVars, eventSeq, disposeCalls>>

\* The timeout callback of trackControllerInputLag, started by an
\* inputsourceschange event at inputTime
ControllerInputLag(inputTime, processTime) ==
    /\ monitor # Null
    /\ monitor.xrSession # 0
    /\ LET h == PushCapped(monitor.controllerInputHistory,
                           [timestamp |-> inputTime, processed |-> processTime],
                           MaxControllerInputHistory)
       IN  monitor' = [monitor EXCEPT
                          !.controllerInputHistory = h,
                          !.metrics.controllerInputLag = AverageDelay(h)]
    /\ UNCHANGED <<StoreVars, isMonitoringEnabled, homeInitialized, HookVars,
                   gl, EnvVars, eventSeq, disposeCalls>>

----------------------------------------------------------------------------
(* The XR session lifecycle.  performance.now() and the frame time are     *)
(* read off tick, in milliseconds.                                         *)

WebXRVars == <<globalMetrics, globalMetricsIsLive, performanceChanges,
               isMonitoringEnabled, homeInitialized, HookVars, gl, heapApi,
               observerApi, replacedMonitors, eventSeq, disposeCalls>>

\* <XR onSessionStart>: a session starts presenting; setXRActive(true)
XRSessionStart ==
    /\ webxr.session = 0
    /\ webxr.started < MaxXrSessions
    /\ webxr' = [webxr EXCEPT !.session = webxr.started + 1,
                             !.started = webxr.started + 1,
                             !.isXRActive = TRUE]
    /\ UNCHANGED <<monitor, WebXRVars>>

\* <XR onSessionEnd>: the session has ended, so its pending frame callbacks
\* are never run; setXRActive(false)
XRSessionEnd ==
    /\ webxr.session # 0
    /\ webxr' = [webxr EXCEPT
                    !.session = 0,
                    !.isXRActive = FALSE,
                    !.frameCallbacks =
                        SelectSeq(@, LAMBDA c : c # webxr.session)]
    /\ UNCHANGED <<monitor, WebXRVars>>

\* useWebXRPerformanceMonitor: the effect on isXRActive
XRInactiveEffect ==
    /\ ~webxr.isXRActive
    /\ webxr.isInitialized
    /\ webxr' = [webxr EXCEPT !.isInitialized = FALSE, !.xrSessionRef = 0]
    /\ UNCHANGED <<monitor, WebXRVars>>

\* Mutant of ShouldInitializeXR: the hook's refs are not consulted
ShouldInitializeXR_NoRefs ==
    /\ webxr.isXRActive
    /\ webxr.session # 0

\* useWebXRPerformanceMonitor: the condition under which the frame callback
\* calls monitor.initializeXRSession(session)
ShouldInitializeXR ==
    /\ webxr.isXRActive
    /\ ~webxr.isInitialized
    /\ webxr.session # 0
    /\ webxr.session # webxr.xrSessionRef

\* useWebXRPerformanceMonitor: the useFrame callback, with the session
\* lifecycle.  initializeXRSession adds a listener, requests the first frame
\* and starts the timeout.
WebXRFramePass ==
    /\ monitor # Null
    /\ LET attach == ShouldInitializeXR
           m1 == IF attach
                 THEN initializeXRSession(monitor, webxr.session, tick)
                 ELSE monitor
       IN  /\ monitor' = m1
           /\ webxr' = IF attach
                       THEN [webxr EXCEPT
                               !.xrSessionRef = webxr.session,
                               !.isInitialized = TRUE,
                               !.listeners = Append(@, webxr.session),
                               !.frameCallbacks = Append(@, webxr.session),
                               !.initTimeouts = @ + 1,
                               !.frames = 0,
                               !.initTimeWrites = 0]
                       ELSE webxr
           /\ globalMetrics' = updateGlobalMetrics(m1.metrics)
           /\ globalMetricsIsLive' = FALSE
    /\ UNCHANGED <<performanceChanges, isMonitoringEnabled, homeInitialized,
                   HookVars, gl, heapApi, observerApi, replacedMonitors,
                   eventSeq, disposeCalls>>

\* trackXRFrame(time)
trackXRFrame(m, time, hasInputSources) ==
    LET deltaTime == time - m.lastXRFrameTime
        m1 == IF m.lastXRFrameTime > 0
              THEN [m EXCEPT !.metrics.xrFrameRate =
                       IF deltaTime > 0 THEN 1000 \div deltaTime ELSE 0]
              ELSE m
        m2 == IF m.lastXRFrameTime > 0 /\ hasInputSources
              THEN trackMotionToPhotonDelay(m1, time, time + 1)
              ELSE m1
    IN  [m2 EXCEPT !.lastXRFrameTime = time]

\* Remove the i-th entry of s
RemoveAt(s, i) == SubSeq(s, 1, i - 1) \o SubSeq(s, i + 1, Len(s))

\* monitorFrame: one pending frame callback of the presenting session runs
\* and requests the next frame on this.xrSession; a request on a session
\* that has ended is never answered
monitorFrame ==
    /\ monitor # Null
    /\ webxr.session # 0
    /\ \E i \in DOMAIN webxr.frameCallbacks :
          /\ webxr.frameCallbacks[i] = webxr.session
          /\ monitor' = trackXRFrame(monitor, tick, TRUE)
          /\ webxr' = [webxr EXCEPT
                          !.frames = @ + 1,
                          !.frameCallbacks =
                              IF monitor.xrSession = webxr.session
                              THEN Append(RemoveAt(@, i), monitor.xrSession)
                              ELSE RemoveAt(@, i)]
    /\ UNCHANGED WebXRVars

\* The timeout of initializeXRSession
SessionInitTimeout ==
    /\ monitor # Null
    /\ webxr.initTimeouts > 0
    /\ monitor' = [monitor EXCEPT !.metrics.xrSessionInitTime =
                                     tick - monitor.xrSessionStartTime]
    /\ webxr' = [webxr EXCEPT !.initTimeouts = @ - 1,
                             !.initTimeWrites = @ + 1]
    /\ UNCHANGED WebXRVars

\* inputsourceschange on the presenting session: every listener added for it
\* runs trackControllerInputLag, which starts a timeout
InputSourcesChange ==
    /\ webxr.session # 0
    /\ Len(webxr.lagTimeouts) < MaxLagTimeouts
    /\ \E i \in DOMAIN webxr.listeners : webxr.listeners[i] = webxr.session
    /\ webxr' = [webxr EXCEPT !.lagTimeouts =
                    @ \o [i \in 1..Len(SelectSeq(webxr.listeners,
                                   LAMBDA c : c = webxr.session)) |-> tick]]
    /\ UNCHANGED <<monitor, WebXRVars>>

\* The timeout of trackControllerInputLag
ControllerLagTimeout ==
    /\ monitor # Null
    /\ webxr.lagTimeouts # <<>>
    /\ LET h == PushCapped(monitor.controllerInputHistory,
                           [timestamp |-> Head(webxr.lagTimeouts),
                            processed |-> tick],
                           MaxControllerInputHistory)
       IN  monitor' = [monitor EXCEPT
                          !.controllerInputHistory = h,
                          !.metrics.controllerInputLag = AverageDelay(h)]
    /\ webxr' = [webxr EXCEPT !.lagTimeouts = Tail(@)]
    /\ UNCHANGED WebXRVars

----------------------------------------------------------------------------
(* Inputs *)

SceneA == [calls |-> 100, triangles |-> 1000, geometries |-> 100,
           textures |-> 10, programs |-> 3]
SceneB == [calls |-> 120, triangles |-> 2000, geometries |-> 101,
           textures |-> 10, programs |-> 3]
SceneC == [calls |-> 200, triangles |-> 50000, geometries |-> 20,
           textures |-> 10, programs |-> 3]

\* The WebGL context passed to measureGPUTiming has no xr property
\* (renderer.xr belongs to the WebGLRenderer), so gl.xr is undefined
GlXrPresenting == {FALSE}

InitWith(Kinds, HeapApis, ObserverApis) ==
    /\ monitor = Null
    /\ globalMetrics = InitialMetrics
    /\ globalMetricsIsLive = FALSE
    /\ performanceChanges = <<>>
    /\ isMonitoringEnabled = TRUE
    /\ homeInitialized = FALSE
    /\ fpsBuffer = <<>>
    /\ checkInterval = 0
    /\ memoryHistory = <<>>
    /\ gl \in {NewGl(k) : k \in Kinds}
    /\ heapApi \in HeapApis
    /\ observerApi \in ObserverApis
    /\ webxr = NoXr
    /\ replacedMonitors = <<>>
    /\ eventSeq = 0
    /\ disposeCalls = 0
    /\ tick = 0

----------------------------------------------------------------------------
(* Spec: the frame passes of both drivers and the asynchronous sources,    *)
(* short runs with changing scenes                                         *)

HeapSizes == {100, 250}
DeltaTimes == {0, 16 * Ms}
Elapsed == {Ms \div 2}
Scenes == {SceneA, SceneB}
QueryResults == {2000000}
Durations == {Ms \div 2, 16 * Ms}
Latencies == {30}

Init == InitWith({"none", "full"}, {TRUE}, {TRUE})

Next ==
    \/ \E b \in Baselines({100}) :
          Advance(MaxTicks) /\ HookInitializeMonitor(b)
    \/ \E dt \in DeltaTimes, info \in Scenes, xr \in GlXrPresenting,
          polls \in Polls(QueryResults) :
          Advance(MaxTicks) /\ RealTimePass(dt, info, xr, polls)
    \/ \E info \in Scenes, xr \in GlXrPresenting, polls \in Polls(QueryResults),
          e \in Elapsed :
          Advance(MaxTicks) /\ ThreeJsStatsPass(info, xr, polls, e, 100)
    \/ \E d \in Durations : Advance(MaxTicks) /\ PerformanceObserverMeasure(d)
    \/ \E l \in Latencies : Advance(MaxTicks) /\ LatencyProbe(l)

Spec == Init /\ [][Next]_vars

----------------------------------------------------------------------------
(* SpecGpu: the timer-query pool and dispose(), one scene, every kind of   *)
(* extension object, runs long enough to overflow the pool                 *)

InitGpu == InitWith(ExtKinds, {TRUE}, BOOLEAN)

NextGpu ==
    \/ \E b \in Baselines({100}) :
          Advance(MaxGpuTicks) /\ HookInitializeMonitor(b)
    \/ \E xr \in GlXrPresenting, polls \in Polls(QueryResults) :
          Advance(MaxGpuTicks) /\ RealTimePass(16 * Ms, SceneA, xr, polls)
    \/ \E xr \in GlXrPresenting, polls \in Polls(QueryResults) :
          Advance(MaxGpuTicks)
          /\ ThreeJsStatsPass(SceneA, xr, polls, Ms \div 2, 100)
    \/ Advance(MaxGpuTicks) /\ Dispose

SpecGpu == InitGpu /\ [][NextGpu]_vars

----------------------------------------------------------------------------
(* SpecRing: the useRealTimePerformance driver over a cycle of three       *)
(* scenes that differ in draw calls, triangles and geometries, so that     *)
(* every pass from the third on emits three events; runs long enough to    *)
(* overflow the store's list of 100 in the middle of a batch               *)

RingScenes ==
    <<[calls |-> 100, triangles |-> 1000, geometries |-> 100,
       textures |-> 10, programs |-> 3],
      [calls |-> 200, triangles |-> 2000, geometries |-> 200,
       textures |-> 10, programs |-> 3],
      [calls |-> 400, triangles |-> 4000, geometries |-> 400,
       textures |-> 10, programs |-> 3]>>

InitRing == InitWith(ExtKinds, {TRUE}, {TRUE})

NextRing ==
    \/ \E b \in Baselines({100}) :
          Advance(MaxRingTicks) /\ HookInitializeMonitor(b)
    \/ \E xr \in GlXrPresenting, polls \in Polls({}) :
          Advance(MaxRingTicks)
          /\ RealTimePass(16 * Ms, RingScenes[(tick % 3) + 1], xr, polls)

SpecRing == InitRing /\ [][NextRing]_vars

----------------------------------------------------------------------------
(* SpecEst: the fallback estimator as a function of the metrics it reads.  *)
(* The initial states are monitors whose metrics hold the inputs; the one  *)
(* action applies estimateGPUTime.                                         *)

EstDrawCalls == {0, 200}
EstTriangles == {0, 50000}
EstFragmentComplexity == {0, 300}
EstTextures == {0, 10}
EstFrameTimes == {1, Ms \div 2, 16 * Ms}
EstGpuFrameTimes == {0, 2 * Ms, 30 * Ms}

InitEst ==
    /\ \E dc \in EstDrawCalls, tr \in EstTriangles,
          fc \in EstFragmentComplexity, tx \in EstTextures,
          ft \in EstFrameTimes, g \in EstGpuFrameTimes :
          monitor = [NewMonitor(100, TRUE) EXCEPT
                        !.metrics.drawCalls = dc,
                        !.metrics.triangles = tr,
                        !.metrics.gpuFragmentComplexity = fc,
                        !.metrics.textures = tx,
                        !.metrics.frameTime = ft,
                        !.metrics.gpuFrameTime = g]
    /\ globalMetrics = InitialMetrics
    /\ globalMetricsIsLive = FALSE
    /\ performanceChanges = <<>>
    /\ isMonitoringEnabled = TRUE
    /\ homeInitialized = FALSE
    /\ fpsBuffer = <<>>
    /\ checkInterval = 0
    /\ memoryHistory = <<>>
    /\ gl = NewGl("none")
    /\ heapApi = TRUE
    /\ observerApi = TRUE
    /\ webxr = NoXr
    /\ replacedMonitors = <<>>
    /\ eventSeq = 0
    /\ disposeCalls = 0
    /\ tick = 0

EstimateStep ==
    /\ Advance(MaxEstTicks)
    /\ monitor' = estimateGPUTime(World).m
    /\ UNCHANGED <<StoreVars, isMonitoringEnabled, homeInitialized, HookVars,
                   gl, EnvVars, eventSeq, disposeCalls>>

SpecEst == InitEst /\ [][EstimateStep]_vars

----------------------------------------------------------------------------
(* SpecMem: the two writers of memoryLeaks, end() under the useThreeJsStats *)
(* driver and the useRealTimeMemoryMonitor callback, which acts on every   *)
(* 60th frame                                                              *)

InitMem == InitWith({"none"}, {TRUE}, {TRUE})

NextMem ==
    \/ \E b \in Baselines({100}) :
          Advance(MaxMemTicks) /\ HookInitializeMonitor(b)
    \/ \E h \in HeapSizes : Advance(MaxMemTicks) /\ MemoryMonitorPass(h)
    \/ \E xr \in GlXrPresenting, polls \in Polls({}), h \in HeapSizes :
          Advance(MaxMemTicks)
          /\ ThreeJsStatsPass(SceneA, xr, polls, Ms \div 2, h)

SpecMem == InitMem /\ [][NextMem]_vars

----------------------------------------------------------------------------
(* SpecWin: every source that feeds a rolling window, each with samples    *)
(* that differ from one call to the next.  The windows are disjoint, so    *)
(* the sources run one after the other, each long enough to overflow its   *)
(* window; the memory monitor, which reads the heap on every 60th frame,   *)
(* runs first.                                                             *)

WinMemoryFrom == 1
WinFramesFrom == WinMemoryFrom + MemoryCheckFrames * (MaxMemoryHistory + 1)
WinFpsFrom == WinFramesFrom + MaxFrameTimings + 1
WinLatencyFrom == WinFpsFrom + MaxFpsBuffer + 1
WinXrFrom == WinLatencyFrom + 2 * (MaxLatencyQueue + 1)
WinControllerFrom == WinXrFrom + MaxMotionHistory + 3

InitWin == InitWith({"none", "full"}, {TRUE}, {TRUE})

NextWin ==
    \/ \E b \in Baselines({100}) :
          Advance(MaxWinTicks) /\ HookInitializeMonitor(b)
    \/ /\ tick < WinFramesFrom
       /\ Advance(MaxWinTicks)
       /\ MemoryMonitorPass(100 + tick \div MemoryCheckFrames)
    \/ \E xr \in GlXrPresenting, polls \in Polls({}) :
          /\ WinFramesFrom <= tick /\ tick < WinFpsFrom
          /\ Advance(MaxWinTicks)
          /\ ThreeJsStatsPass(SceneA, xr, polls, Ms \div 2 + tick, 100)
    \/ \E xr \in GlXrPresenting, polls \in Polls({}) :
          /\ WinFpsFrom <= tick /\ tick < WinLatencyFrom
          /\ Advance(MaxWinTicks)
          /\ RealTimePass(16 * Ms + tick, SceneA, xr, polls)
    \/ /\ WinLatencyFrom <= tick /\ tick < WinXrFrom
       /\ Advance(MaxWinTicks)
       /\ LatencyInterval
    \/ /\ WinLatencyFrom <= tick /\ tick < WinXrFrom
       /\ Advance(MaxWinTicks)
       /\ LatencyProbe(30 + tick)
    \/ /\ tick = WinXrFrom
       /\ Advance(MaxWinTicks)
       /\ WebXRMonitorPass(TRUE)
    \/ /\ WinXrFrom < tick /\ tick < WinControllerFrom
       /\ Advance(MaxWinTicks)
       /\ XRFrame(tick, 2 * tick, TRUE)
    \/ /\ WinControllerFrom <= tick
       /\ Advance(MaxWinTicks)
       /\ ControllerInputLag(tick, 2 * tick)

SpecWin == InitWin /\ [][NextWin]_vars

----------------------------------------------------------------------------
(* SpecFps: useRealTimePerformance passes on frames of 16.667 ms (60 FPS)  *)
(* and 35.714 ms (28 FPS)                                                  *)

FpsDeltaTimes == {16667, 35714}

InitFps == InitWith({"none"}, {TRUE}, {TRUE})

NextFps ==
    \/ \E b \in Baselines({100}) :
          Advance(MaxFpsTicks) /\ HookInitializeMonitor(b)
    \/ \E dt \in FpsDeltaTimes, xr \in GlXrPresenting, polls \in Polls({}) :
          Advance(MaxFpsTicks) /\ RealTimePass(dt, SceneA, xr, polls)

SpecFps == InitFps /\ [][NextFps]_vars

----------------------------------------------------------------------------
(* SpecFallback: both drivers on a context without a usable timing         *)
(* extension, over a light scene and the heavy scene of 200 draw calls,    *)
(* 50000 triangles, 3 programs and 10 textures                             *)

FallbackScenes == {SceneA, SceneC}

InitFallback == InitWith({"none", "noCreateQuery"}, {TRUE}, {TRUE})

NextFallback ==
    \/ \E b \in Baselines({100}) :
          Advance(MaxFallbackTicks) /\ HookInitializeMonitor(b)
    \/ \E info \in FallbackScenes, xr \in GlXrPresenting, polls \in Polls({}) :
          Advance(MaxFallbackTicks) /\ RealTimePass(16 * Ms, info, xr, polls)
    \/ \E info \in FallbackScenes, xr \in GlXrPresenting, polls \in Polls({}) :
          Advance(MaxFallbackTicks)
          /\ ThreeJsStatsPass(info, xr, polls, 16 * Ms, 100)

SpecFallback == InitFallback /\ [][NextFallback]_vars

\* A renderer update of SpecFallback, by driver
IsFallbackRealTimePass ==
    \E info \in FallbackScenes, xr \in GlXrPresenting, polls \in Polls({}) :
        RealTimePass(16 * Ms, info, xr, polls)

IsFallbackThreeJsPass ==
    \E info \in FallbackScenes, xr \in GlXrPresenting, polls \in Polls({}) :
        ThreeJsStatsPass(info, xr, polls, 16 * Ms, 100)

IsFallbackPass == IsFallbackRealTimePass \/ IsFallbackThreeJsPass

----------------------------------------------------------------------------
(* SpecStop: all four frame hooks mounted, monitoring stopped and started  *)
(* again.  The memory hook first counts its frames up to one short of a    *)
(* reading, so that a reading falls into the explored part.                *)

StopWarmupFrames == MemoryCheckFrames - 1

\* A callback of one of the mounted frame hooks
StopFramePass ==
    \/ RealTimePass(16 * Ms, SceneA, FALSE, <<>>)
    \/ ThreeJsStatsPass(SceneA, FALSE, <<>>, 16 * Ms, 100)
    \/ MemoryMonitorPass(200)
    \/ WebXRMonitorPass(FALSE)

InitStop == InitWith({"none"}, {TRUE}, {TRUE})

NextStop ==
    \/ \E b \in Baselines({100}) :
          Advance(MaxStopTicks) /\ HookInitializeMonitor(b)
    \/ tick < StopWarmupFrames /\ Advance(MaxStopTicks) /\ MemoryMonitorPass(200)
    \/ tick >= StopWarmupFrames /\ Advance(MaxStopTicks)
          /\ RealTimePass(16 * Ms, SceneA, FALSE, <<>>)
    \/ tick >= StopWarmupFrames /\ Advance(MaxStopTicks)
          /\ ThreeJsStatsPass(SceneA, FALSE, <<>>, 16 * Ms, 100)
    \/ tick >= StopWarmupFrames /\ Advance(MaxStopTicks) /\ MemoryMonitorPass(200)
    \/ tick >= StopWarmupFrames /\ Advance(MaxStopTicks) /\ WebXRMonitorPass(FALSE)
    \/ tick >= StopWarmupFrames /\ Advance(MaxStopTicks)
          /\ PerformanceObserverMeasure(20 * Ms)
    \/ tick >= StopWarmupFrames /\ Advance(MaxStopTicks) /\ stopMonitoring
    \/ tick >= StopWarmupFrames /\ Advance(MaxStopTicks) /\ startMonitoring

SpecStop == InitStop /\ [][NextStop]_vars

----------------------------------------------------------------------------
(* SpecXr: a context with the full timing extension; the WebXR hook        *)
(* attaches the presenting session to the monitor, and no action ends the  *)
(* session, so monitor.xrSession marks the period in which XR presents.    *)

InitXr == InitWith({"full"}, {TRUE}, {TRUE})

\* A renderer update of SpecXr, by driver
IsXrRealTimePass ==
    \E xr \in GlXrPresenting, polls \in Polls(QueryResults) :
        RealTimePass(16 * Ms, SceneA, xr, polls)

IsXrThreeJsPass ==
    \E xr \in GlXrPresenting, polls \in Polls(QueryResults) :
        ThreeJsStatsPass(SceneA, xr, polls, 16 * Ms, 100)

NextXr ==
    \/ \E b \in Baselines({100}) :
          Advance(MaxXrTicks) /\ HookInitializeMonitor(b)
    \/ Advance(MaxXrTicks) /\ WebXRMonitorPass(TRUE)
    \/ Advance(MaxXrTicks) /\ XRFrame(tick, 2 * tick, TRUE)
    \/ Advance(MaxXrTicks) /\ IsXrRealTimePass
    \/ Advance(MaxXrTicks) /\ IsXrThreeJsPass

SpecXr == InitXr /\ [][NextXr]_vars

----------------------------------------------------------------------------
(* SpecSev: updateMetric and its getSeverity as functions of the key, the  *)
(* remembered old value and the new value.  The initial states are         *)
(* monitors that already saw two updates of every lower-is-better key; the *)
(* one action applies updateMetric.                                        *)

LowerIsBetter == {"ms", "frameTime", "drawCalls", "triangles"}
SevOldValues == {100, 200}
SevNewValues == {40, 80, 96, 100, 104, 110, 111, 125, 126, 150, 151, 300, 301}

InitSev ==
    /\ \E o1 \in SevOldValues, o2 \in SevOldValues :
          monitor = [NewMonitor(100, TRUE) EXCEPT
                        !.previousMetrics = [k \in LowerIsBetter |-> o1],
                        !.metrics.ms = o2,
                        !.metrics.frameTime = o2,
                        !.metrics.drawCalls = o2,
                        !.metrics.triangles = o2]
    /\ globalMetrics = InitialMetrics
    /\ globalMetricsIsLive = FALSE
    /\ performanceChanges = <<>>
    /\ isMonitoringEnabled = TRUE
    /\ homeInitialized = FALSE
    /\ fpsBuffer = <<>>
    /\ checkInterval = 0
    /\ memoryHistory = <<>>
    /\ gl = NewGl("none")
    /\ heapApi = TRUE
    /\ observerApi = TRUE
    /\ webxr = NoXr
    /\ replacedMonitors = <<>>
    /\ eventSeq = 0
    /\ disposeCalls = 0
    /\ tick = 0

UpdateMetricStep ==
    /\ Advance(MaxSevTicks)
    /\ \E key \in LowerIsBetter, value \in SevNewValues :
          LET w1 == updateMetric(World, key, value)
          IN  monitor' = w1.m /\ eventSeq' = w1.seq
    /\ UNCHANGED <<StoreVars, isMonitoringEnabled, homeInitialized, HookVars,
                   gl, EnvVars, disposeCalls>>

SpecSev == InitSev /\ [][UpdateMetricStep]_vars

----------------------------------------------------------------------------
(* SpecFpsSev: updateMetric and getSeverity for the key "fps", as a        *)
(* function of the remembered old value and the new value                  *)

FpsOldValues == {100, 200}
FpsNewValues == {40, 49, 50, 74, 75, 80, 89, 90, 94, 100, 106, 110, 111, 126}

InitFpsSev ==
    /\ \E o1 \in FpsOldValues, o2 \in FpsOldValues :
          monitor = [NewMonitor(100, TRUE) EXCEPT
                        !.previousMetrics = [k \in {"fps"} |-> o1],
                        !.metrics.fps = o2]
    /\ globalMetrics = InitialMetrics
    /\ globalMetricsIsLive = FALSE
    /\ performanceChanges = <<>>
    /\ isMonitoringEnabled = TRUE
    /\ homeInitialized = FALSE
    /\ fpsBuffer = <<>>
    /\ checkInterval = 0
    /\ memoryHistory = <<>>
    /\ gl = NewGl("none")
    /\ heapApi = TRUE
    /\ observerApi = TRUE
    /\ webxr = NoXr
    /\ replacedMonitors = <<>>
    /\ eventSeq = 0
    /\ disposeCalls = 0
    /\ tick = 0

UpdateFpsStep ==
    /\ Advance(MaxFpsSevTicks)
    /\ \E value \in FpsNewValues :
          LET w1 == updateMetric(World, "fps", value)
          IN  monitor' = w1.m /\ eventSeq' = w1.seq
    /\ UNCHANGED <<StoreVars, isMonitoringEnabled, homeInitialized, HookVars,
                   gl, EnvVars, disposeCalls>>

SpecFpsSev == InitFpsSev /\ [][UpdateFpsStep]_vars

----------------------------------------------------------------------------
(* SpecXrLife: XR sessions start and end under one mounted                 *)
(* useWebXRPerformanceMonitor                                              *)

InitXrLife == InitWith({"none"}, {TRUE}, {TRUE})

NextXrLife ==
    \/ \E b \in Baselines({100}) :
          Advance(MaxXrLifeTicks) /\ HookInitializeMonitor(b)
    \/ Advance(MaxXrLifeTicks) /\ XRSessionStart
    \/ Advance(MaxXrLifeTicks) /\ XRSessionEnd
    \/ Advance(MaxXrLifeTicks) /\ XRInactiveEffect
    \/ Advance(MaxXrLifeTicks) /\ WebXRFramePass
    \/ Advance(MaxXrLifeTicks) /\ monitorFrame
    \/ Advance(MaxXrLifeTicks) /\ SessionInitTimeout
    \/ Advance(MaxXrLifeTicks) /\ InputSourcesChange
    \/ Advance(MaxXrLifeTicks) /\ ControllerLagTimeout

SpecXrLife == InitXrLife /\ [][NextXrLife]_vars

----------------------------------------------------------------------------
(* SpecAsync: dispose() among the asynchronous sources the monitor starts: *)
(* the latency interval and its scheduled measurement, the XR frame        *)
(* callback chain, the session-init timeout and the controller-lag         *)
(* timeout.                                                                *)

InitAsync == InitWith({"none"}, {TRUE}, {TRUE})

\* A step of one of the asynchronous sources
IsAsyncSource ==
    \/ \E l \in Latencies : LatencyProbe(l)
    \/ monitorFrame
    \/ SessionInitTimeout
    \/ ControllerLagTimeout

NextAsync ==
    \/ \E b \in Baselines({100}) :
          Advance(MaxAsyncTicks) /\ HookInitializeMonitor(b)
    \/ Advance(MaxAsyncTicks) /\ LatencyInterval
    \/ \E l \in Latencies : Advance(MaxAsyncTicks) /\ LatencyProbe(l)
    \/ Advance(MaxAsyncTicks) /\ Dispose
    \/ Advance(MaxAsyncTicks) /\ XRSessionStart
    \/ Advance(MaxAsyncTicks) /\ WebXRFramePass
    \/ Advance(MaxAsyncTicks) /\ monitorFrame
    \/ Advance(MaxAsyncTicks) /\ SessionInitTimeout
    \/ Advance(MaxAsyncTicks) /\ InputSourcesChange
    \/ Advance(MaxAsyncTicks) /\ ControllerLagTimeout

SpecAsync == InitAsync /\ [][NextAsync]_vars

----------------------------------------------------------------------------
(* SpecInit: the mount effects that create a monitor, in any order, among  *)
(* the latency measurements, frame passes and dispose() calls of the       *)
(* monitor the store holds.                                                *)

InitInit == InitWith({"none"}, {TRUE}, {TRUE})

NextInit ==
    \/ \E b \in Baselines({100}) :
          Advance(MaxInitTicks) /\ HookInitializeMonitor(b)
    \/ \E b \in Baselines({100}) :
          Advance(MaxInitTicks) /\ HomePageInitializeMonitor(b)
    \/ Advance(MaxInitTicks) /\ LatencyInterval
    \/ \E l \in Latencies : Advance(MaxInitTicks) /\ LatencyProbe(l)
    \/ \E xr \in GlXrPresenting :
          Advance(MaxInitTicks) /\ RealTimePass(16 * Ms, SceneA, xr, <<>>)
    \/ Advance(MaxInitTicks) /\ Dispose

SpecInit == InitInit /\ [][NextInit]_vars

----------------------------------------------------------------------------
(* SpecQuery: the calls made on the timer-query extension over sequences   *)
(* of frame passes of both drivers, for every kind of extension object,    *)
(* the throwing ones included, before and after the WebXR hook attached a  *)
(* presenting session, and after dispose().                                *)

InitQuery == InitWith(ExtKinds \cup ThrowingKinds, {TRUE}, {TRUE})

IsQueryRealTimePass ==
    \E xr \in GlXrPresenting, polls \in Polls(QueryResults) :
        RealTimePass(16 * Ms, SceneA, xr, polls)

IsQueryThreeJsPass ==
    \E xr \in GlXrPresenting, polls \in Polls(QueryResults) :
        ThreeJsStatsPass(SceneA, xr, polls, Ms \div 2, 100)

NextQuery ==
    \/ \E b \in Baselines({100}) :
          Advance(MaxQueryTicks) /\ HookInitializeMonitor(b)
    \/ Advance(MaxQueryTicks) /\ WebXRMonitorPass(TRUE)
    \/ Advance(MaxQueryTicks) /\ IsQueryRealTimePass
    \/ Advance(MaxQueryTicks) /\ IsQueryThreeJsPass
    \/ Advance(MaxQueryTicks) /\ Dispose

SpecQuery == InitQuery /\ [][NextQuery]_vars

----------------------------------------------------------------------------
(* SpecNonFinite: updateMetric and the fps reading of updateFrameMetrics   *)
(* over JavaScript numbers, the non-finite ones included.  NaN and         *)
(* Infinity are kept as two integers outside the range of the samples.     *)

NaN == -1000001
PosInfinity == 1000001

IsFinite(x) == x # NaN /\ x # PosInfinity

\* updateMetric(key, value) as JavaScript evaluates it when value or the
\* remembered old value is not finite.  `NaN || 0` is 0.  With a finite
\* non-zero old value and an infinite value deltaPercent is infinite and an
\* event is recorded; in every other non-finite case deltaPercent is NaN or
\* the old value is 0, and no event is recorded.  The assignments at the end
\* are unconditional.
updateMetricNumber(w, key, value) ==
    LET stored == w.m.previousMetrics[key]
        oldValue == IF stored = NaN THEN 0 ELSE stored
    IN  IF IsFinite(oldValue) /\ IsFinite(value)
        THEN updateMetric([w EXCEPT !.m.previousMetrics[key] = oldValue],
                          key, value)
        ELSE LET emit == oldValue # 0 /\ IsFinite(oldValue)
                         /\ value = PosInfinity
                 change == [seq |-> w.seq + 1, metric |-> key,
                            oldValue |-> oldValue, newValue |-> value,
                            severity |->
                                getSeverity(key, PosInfinity, Abs(oldValue))]
             IN  [w EXCEPT
                    !.seq = IF emit THEN w.seq + 1 ELSE w.seq,
                    !.m.changes = IF emit
                                  THEN UnshiftChange(w.m.changes, change)
                                  ELSE w.m.changes,
                    !.m.previousMetrics[key] = w.m.metrics[key],
                    !.m.metrics[key] = value]

\* parseFloat(textContent.split(" ")[0]) of the panel texts considered
StatsTexts == {"", "60 FPS (55-60)", "0 FPS (0-0)", "FPS"}

parseFloat(text) ==
    CASE text = "60 FPS (55-60)" -> 60
      [] text = "0 FPS (0-0)" -> 0
      [] OTHER -> NaN

\* updateFrameMetrics, the fps reading: skipped when the element is absent
\* or its text is empty, else Math.round(1000 / parseFloat(...))
updateFrameMetricsFps(m, text) ==
    IF text = "" THEN m
    ELSE LET x == parseFloat(text)
         IN  [m EXCEPT !.metrics.fps =
                 IF x = NaN THEN NaN
                 ELSE IF x = 0 THEN PosInfinity
                 ELSE (2 * 1000 + x) \div (2 * x)]

NonFiniteKeys == {"frameTime", "drawCalls"}
NonFiniteSamples == {100, 120, NaN, PosInfinity}

InitNonFinite == InitWith({"none"}, {TRUE}, {TRUE})

UpdateMetricNumberStep ==
    /\ monitor # Null
    /\ \E key \in NonFiniteKeys, value \in NonFiniteSamples :
          LET w1 == updateMetricNumber(World, key, value)
          IN  monitor' = w1.m /\ eventSeq' = w1.seq
    /\ UNCHANGED <<StoreVars, isMonitoringEnabled, homeInitialized, HookVars,
                   gl, EnvVars, disposeCalls>>

StatsPanelRead ==
    /\ monitor # Null
    /\ \E text \in StatsTexts : monitor' = updateFrameMetricsFps(monitor, text)
    /\ UNCHANGED <<StoreVars, isMonitoringEnabled, homeInitialized, HookVars,
                   gl, EnvVars, eventSeq, disposeCalls>>

NextNonFinite ==
    \/ \E b \in Baselines({100}) :
          Advance(MaxNonFiniteTicks) /\ HookInitializeMonitor(b)
    \/ Advance(MaxNonFiniteTicks) /\ UpdateMetricNumberStep
    \/ Advance(MaxNonFiniteTicks) /\ StatsPanelRead

SpecNonFinite == InitNonFinite /\ [][NextNonFinite]_vars

----------------------------------------------------------------------------
(* Steps by kind, for the properties below *)

RendererKeys == {"drawCalls", "triangles", "geometries", "textures", "programs"}

\* A pass of either driver that runs updateRendererStats
IsRendererPass ==
    \/ \E dt \in DeltaTimes \ {0}, info \in Scenes, xr \in GlXrPresenting,
          polls \in Polls(QueryResults) : RealTimePass(dt, info, xr, polls)
    \/ \E info \in Scenes, xr \in GlXrPresenting, polls \in Polls(QueryResults),
          e \in Elapsed : ThreeJsStatsPass(info, xr, polls, e, 100)

\* A step of an asynchronous source: it makes no updateGlobalMetrics call
IsAsyncStep ==
    \/ \E d \in Durations : PerformanceObserverMeasure(d)
    \/ \E l \in Latencies : LatencyProbe(l)

\* The events created by the current step, wherever they ended up
NewEvents ==
    {e \in Range(monitor'.changes) \cup Range(performanceChanges') :
        e.seq > eventSeq}

----------------------------------------------------------------------------
(* C1: every change event is delivered to performanceChanges at most once: *)
(* no event appears twice in the list.                                     *)
C1_AtMostOnceDelivery ==
    \A i, j \in DOMAIN performanceChanges :
        i # j => performanceChanges[i].seq # performanceChanges[j].seq

(* C4: the store's snapshot is a copy: a step of an asynchronous source,   *)
(* which mutates monitor.metrics and makes no updateGlobalMetrics call,    *)
(* leaves what the store reads as globalMetrics unchanged.                 *)
C4_SnapshotIsCopy ==
    [][IsAsyncStep => StoreGlobalMetrics' = StoreGlobalMetrics]_vars

(* C6: performanceChanges is newest-first: of two events in the list the   *)
(* one emitted later is at the lower index.                                *)
C6_NewestFirst ==
    \A i, j \in DOMAIN performanceChanges :
        i < j => performanceChanges[i].seq > performanceChanges[j].seq

(* C7: an updateMetric(key, value) call creates exactly one change event   *)
(* when the old value it compares against is non-zero and                  *)
(* |(value - old) / old * 100| > 5, and none otherwise.  Checked on the    *)
(* observer callback (one call) and on the renderer passes (one call per   *)
(* renderer key).                                                          *)
C7_Emits(old, value) == old # 0 /\ 100 * Abs(value - old) > 5 * Abs(old)

C7_EmitIffSignificant ==
    [][/\ \A d \in Durations :
            PerformanceObserverMeasure(d) =>
              LET old == monitor.previousMetrics["frameTime"]
              IN  IF C7_Emits(old, d)
                  THEN /\ eventSeq' = eventSeq + 1
                       /\ Head(monitor'.changes).metric = "frameTime"
                       /\ Head(monitor'.changes).oldValue = old
                       /\ Head(monitor'.changes).newValue = d
                  ELSE /\ eventSeq' = eventSeq
                       /\ monitor'.changes = monitor.changes
       /\ IsRendererPass =>
            LET expected == {k \in RendererKeys :
                               C7_Emits(monitor.previousMetrics[k],
                                        monitor'.metrics[k])}
            IN  /\ eventSeq' - eventSeq = Cardinality(expected)
                /\ {e.metric : e \in NewEvents} = expected
                /\ Cardinality(NewEvents) = Cardinality(expected)
      ]_vars

\* A pass compared 100 with 120 and emitted, and compared 100 with 101 without
\* emitting: geometries only ever changes by 1%
C7_Witness ==
    /\ \E i \in DOMAIN performanceChanges :
          /\ performanceChanges[i].oldValue = 100
          /\ performanceChanges[i].newValue = 120
    /\ monitor.previousMetrics["geometries"] = 100
    /\ monitor.metrics.geometries = 101
    /\ \A i \in DOMAIN performanceChanges :
          performanceChanges[i].metric # "geometries"

----------------------------------------------------------------------------
(* C2: when dispose() returns the latency interval is cleared, both        *)
(* observers are disconnected, and every timer query that was in the pool  *)
(* has been deleted, leaving the pool empty.                               *)
C2_DisposeReleasesAll ==
    [][Dispose =>
         /\ monitor'.latencyTestInterval # "active"
         /\ monitor'.performanceObserver # "observing"
         /\ monitor'.gcObserver # "observing"
         /\ monitor'.timerQueries = <<>>
         /\ Range(monitor.timerQueries) \subseteq gl'.deleted
      ]_vars

(* C3: dispose() is total and idempotent: in every state of the monitor    *)
(* (no renderer update yet, no timing extension, no PerformanceObserver)   *)
(* a call does not throw, and a second call leaves the monitor as the      *)
(* first call left it.                                                     *)
C3_DisposeTotalIdempotent ==
    monitor # Null =>
        /\ dispose(monitor) # Thrown
        /\ dispose(dispose(monitor)) # Thrown
        /\ dispose(dispose(monitor)) = dispose(monitor)
        /\ disposeCalls >= 1 => dispose(monitor) = monitor

\* dispose() was called twice on a monitor that never had an observer and
\* never got a timing extension
C3_Witness ==
    /\ monitor # Null
    /\ disposeCalls = 2
    /\ monitor.performanceObserver = "null"
    /\ ~monitor.glExtension
    /\ monitor.latencyTestInterval = "cleared"

----------------------------------------------------------------------------
\* Every event of list a that is no longer in list b is older than every
\* event of b
DropsOnlyOldest(a, b) ==
    \A i \in DOMAIN a :
        (\A j \in DOMAIN b : b[j].seq # a[i].seq) =>
            \A j \in DOMAIN b : b[j].seq > a[i].seq

(* C5: monitor.changes and performanceChanges hold at most 100 events, and *)
(* an event that leaves a list when the bound is hit is older than every   *)
(* event that stays (a driver emptying monitor.changes is no overflow).    *)
C5_BoundedDropsOldest ==
    [][/\ Len(performanceChanges') <= MaxChanges
       /\ DropsOnlyOldest(performanceChanges, performanceChanges')
       /\ (monitor # Null /\ monitor' # Null) =>
             /\ Len(monitor'.changes) <= MaxChanges
             /\ monitor'.changes # <<>> =>
                   DropsOnlyOldest(monitor.changes, monitor'.changes)
      ]_vars

C10_LeakFlagMatchesThreshold ==
    monitor # Null =>
        (StoreGlobalMetrics.memoryLeaks
            <=> StoreGlobalMetrics.memoryUsed > 2 * monitor.memoryBaseline)

----------------------------------------------------------------------------
\* A window of capacity cap goes from w to v by no change, by an append below
\* capacity, or at capacity by losing its first (oldest) entry to an append
WindowStep(w, v, cap) ==
    /\ Len(v) <= cap
    /\ \/ v = w
       \/ /\ Len(w) < cap
          /\ Len(v) = Len(w) + 1
          /\ \A i \in 1..Len(w) : v[i] = w[i]
       \/ /\ Len(w) = cap
          /\ Len(v) = cap
          /\ \A i \in 1..(cap - 1) : v[i] = w[i + 1]

MonitorWindow(m, field) == IF m = Null THEN <<>> ELSE m[field]

(* C11: every rolling window (frameTimings 60, latencyQueue 10,            *)
(* motionHistory 10, controllerInputHistory 20, fpsBuffer 60,              *)
(* memoryHistory 60) stays within its capacity, and a full window that     *)
(* receives a sample loses its oldest entry.                               *)
C11_WindowsBoundedFifo ==
    [][/\ WindowStep(MonitorWindow(monitor, "frameTimings"),
                     MonitorWindow(monitor', "frameTimings"), MaxFrameTimings)
       /\ WindowStep(MonitorWindow(monitor, "latencyQueue"),
                     MonitorWindow(monitor', "latencyQueue"), MaxLatencyQueue)
       /\ WindowStep(MonitorWindow(monitor, "motionHistory"),
                     MonitorWindow(monitor', "motionHistory"),
                     MaxMotionHistory)
       /\ WindowStep(MonitorWindow(monitor, "controllerInputHistory"),
                     MonitorWindow(monitor', "controllerInputHistory"),
                     MaxControllerInputHistory)
       /\ WindowStep(fpsBuffer, fpsBuffer', MaxFpsBuffer)
       /\ WindowStep(memoryHistory, memoryHistory', MaxMemoryHistory)
      ]_vars

\* Every window is full and has lost its first sample
C11_Witness ==
    /\ monitor # Null
    /\ Len(memoryHistory) = MaxMemoryHistory
    /\ memoryHistory[1] > 100 + 1
    /\ Len(monitor.frameTimings) = MaxFrameTimings
    /\ monitor.frameTimings[1] > Ms \div 2 + WinFramesFrom
    /\ Len(fpsBuffer) = MaxFpsBuffer
    /\ fpsBuffer[1] < FpsOf(16 * Ms + WinFpsFrom)
    /\ Len(monitor.latencyQueue) = MaxLatencyQueue
    /\ monitor.latencyQueue[1] > 30 + WinLatencyFrom
    /\ Len(monitor.motionHistory) = MaxMotionHistory
    /\ monitor.motionHistory[1].timestamp > WinXrFrom + 2
    /\ Len(monitor.controllerInputHistory) = MaxControllerInputHistory
    /\ monitor.controllerInputHistory[1].timestamp > WinControllerFrom

----------------------------------------------------------------------------
(* C12: when the frame rate was 60 FPS for 10 consecutive frames and the   *)
(* next frame drops it to 28 FPS, the change log holds an event with       *)
(* metric "fps" and severity "danger".                                     *)
C12_FpsDropRecorded ==
    LET n == Len(fpsBuffer)
        log == performanceChanges \o (IF monitor = Null THEN <<>>
                                      ELSE monitor.changes)
    IN  (/\ n >= 11
         /\ fpsBuffer[n] = FpsOf(35714)
         /\ \A i \in (n - 10)..(n - 1) : fpsBuffer[i] = FpsOf(16667))
        => \E i \in DOMAIN log :
              log[i].metric = "fps" /\ log[i].severity = "danger"

----------------------------------------------------------------------------
\* The renderer update of the scenario: no timing extension, the heavy scene,
\* a frame time of 16 ms when the estimator runs (the real-time driver writes
\* it before the update, the interval driver after it) and no GPU time so far
C13_Scenario ==
    /\ \/ IsFallbackRealTimePass
       \/ IsFallbackThreeJsPass /\ monitor.metrics.frameTime = 16 * Ms
    /\ monitor.metrics.gpuFrameTime = 0
    /\ monitor'.metrics.drawCalls = 200
    /\ monitor'.metrics.triangles = 50000
    /\ monitor'.metrics.gpuFragmentComplexity = 300
    /\ monitor'.metrics.textures = 10
    /\ monitor'.metrics.frameTime = 16 * Ms

(* C13 as claimed: with the extension unavailable and drawCalls=200,       *)
(* triangles=50000, fragmentComplexity=300, textures=10, frameTime=16 the  *)
(* raw estimate is 23.8 ms and the renderer update leaves gpuFrameTime at  *)
(* the clamped value 12.8 ms.                                              *)
C13_EstimateClampedTo128 ==
    [][C13_Scenario =>
         /\ estimatedGPUTime(monitor'.metrics) = 23800
         /\ monitor'.metrics.gpuFrameTime = 12800
      ]_vars

(* C13 as amended: in that scenario the raw estimate is 23.8 ms and the    *)
(* renderer update, starting from gpuFrameTime 0, leaves gpuFrameTime at   *)
(* the smoothed value 0.3 * 23.8 = 7.14 ms, which is below the clamp of    *)
(* 12.8 ms.                                                                *)
C13_EstimateSmoothedTo714 ==
    [][C13_Scenario =>
         /\ estimatedGPUTime(monitor'.metrics) = 23800
         /\ monitor'.metrics.gpuFrameTime = 7140
         /\ monitor'.metrics.gpuFrameTime < (monitor'.metrics.frameTime * 8) \div 10
      ]_vars

\* The scenario happened: the heavy scene was estimated from no GPU time
C13_Witness ==
    /\ monitor # Null
    /\ ~monitor.gpuTimerAvailable
    /\ monitor.metrics.drawCalls = 200
    /\ monitor.metrics.triangles = 50000
    /\ monitor.metrics.gpuFragmentComplexity = 300
    /\ monitor.metrics.textures = 10
    /\ monitor.metrics.frameTime = 16 * Ms
    /\ monitor.metrics.gpuFrameTime = 7140
    /\ monitor.previousMetrics["drawCalls"] = 0

----------------------------------------------------------------------------
(* C14: between stopMonitoring() and the next startMonitoring() no frame   *)
(* hook publishes: a frame-hook callback that runs while monitoring is     *)
(* stopped leaves globalMetrics and performanceChanges as they were.       *)
C14_StoppedHooksPublishNothing ==
    [][(~isMonitoringEnabled /\ StopFramePass) =>
         /\ StoreGlobalMetrics' = StoreGlobalMetrics
         /\ performanceChanges' = performanceChanges
      ]_vars

----------------------------------------------------------------------------
(* C15: the old value that updateMetric(key, v) compares v against and     *)
(* records as oldValue in the emitted event is the value the metric held   *)
(* immediately before the call.  Every step updates a key at most once, so *)
(* that value is the metric's value before the step.                       *)
C15_OldValueIsCurrentValue ==
    [][(IsRendererPass \/ IsAsyncStep) =>
         \A e \in NewEvents :
            e.metric \in RendererKeys => e.oldValue = monitor.metrics[e.metric]
      ]_vars

----------------------------------------------------------------------------
\* An extension call has failed on the monitor's context: the method it needed
\* was missing or threw.  createQuery is needed by the test of
\* initializeGPUMonitoring, beginQuery and endQuery by the first timed pass
\* (the second handle created), getQueryParameter by the first pass that finds
\* a pooled query (the third handle created).
ExtensionCallFailed ==
    /\ monitor # Null
    /\ monitor.glExtension
    /\ \/ gl.ext = "noCreateQuery"
       \/ gl.ext \in {"noBeginQuery", "noEndQuery"} /\ gl.created >= 2
       \/ gl.ext \in {"noGetQueryParameter", "throwGetQueryParameter"}
          /\ gl.created >= 3

(* C16: once a call on the timing extension has failed (a required method  *)
(* missing or throwing), gpuTimerAvailable is false from then on and no     *)
(* later renderer update makes another call on the extension (no query is   *)
(* created or deleted).  Stated for a monitor that was not disposed.        *)
C16_FailureTurnsTimingOff ==
    [][(ExtensionCallFailed /\ disposeCalls' = 0) =>
         /\ ~monitor.gpuTimerAvailable
         /\ ~monitor'.gpuTimerAvailable
         /\ gl' = gl
      ]_vars

----------------------------------------------------------------------------
\* gpuFrameTime after one step of the fallback estimator, applied to the
\* metrics of `after` with the gpuFrameTime of `before` and the frame time
\* the renderer update saw
EstimatorStep(before, after, frameTime) ==
    estimateGPUTime(
        [World EXCEPT !.m = [after EXCEPT
            !.metrics.gpuFrameTime = before.metrics.gpuFrameTime,
            !.metrics.frameTime = frameTime]]).m.metrics.gpuFrameTime

(* C17: while an XR session is presenting, a frame pass makes no           *)
(* timer-query call (no query is created, pooled, drained or deleted) and  *)
(* each renderer update recomputes gpuFrameTime with the fallback          *)
(* estimator.                                                              *)
C17_NoTimerQueriesWhileXrPresents ==
    [][(monitor # Null /\ monitor.xrSession # 0
        /\ (IsXrRealTimePass \/ IsXrThreeJsPass)) =>
         /\ gl' = gl
         /\ monitor'.timerQueries = monitor.timerQueries
         /\ \/ IsXrRealTimePass
               /\ monitor'.metrics.gpuFrameTime
                    = EstimatorStep(monitor, monitor', 16 * Ms)
            \/ IsXrThreeJsPass
               /\ monitor'.metrics.gpuFrameTime
                    = EstimatorStep(monitor, monitor', monitor.metrics.frameTime)
      ]_vars

(* C18: while the GPU timing extension is unavailable, every renderer      *)
(* update (with a positive frame time) applies one step of the fallback    *)
(* estimator, so gpuFrameTime follows the scene instead of staying at the  *)
(* first estimate.                                                         *)
C18_EstimatorStepEveryUpdate ==
    [][(monitor # Null /\ gl.ext \in {"none", "noCreateQuery"}) =>
         /\ IsFallbackRealTimePass =>
              monitor'.metrics.gpuFrameTime
                = EstimatorStep(monitor, monitor', 16 * Ms)
         /\ (IsFallbackThreeJsPass /\ monitor.metrics.frameTime > 0) =>
              monitor'.metrics.gpuFrameTime
                = EstimatorStep(monitor, monitor', monitor.metrics.frameTime)
      ]_vars

----------------------------------------------------------------------------
\* A renderer update of SpecGpu in which the pooled queries answer polls
IsGpuPass(polls) ==
    \/ RealTimePass(16 * Ms, SceneA, FALSE, polls)
    \/ ThreeJsStatsPass(SceneA, FALSE, polls, Ms \div 2, 100)

\* The positions of the pool whose result is available
Available(polls) == {i \in DOMAIN polls : polls[i] # NotReady}

(* C19: when draining finds at least one result available during a         *)
(* renderer update (timing on, working extension), gpuFrameTime after the  *)
(* update is the last drained result in nanoseconds / 1,000,000, not       *)
(* blended with the estimator, and every drained query is deleted and      *)
(* removed from the pool.                                                  *)
C19_MeasuredIsAuthoritative ==
    [][\A polls \in Polls(QueryResults) :
         (/\ gl.ext = "full"
          /\ monitor # Null /\ monitor.glExtension /\ monitor.gpuTimerAvailable
          /\ Available(polls) # {}
          /\ IsGpuPass(polls)) =>
            LET last == CHOOSE i \in Available(polls) :
                            \A j \in Available(polls) : j <= i
            IN  /\ monitor'.metrics.gpuFrameTime = polls[last] \div NsPerUnit
                /\ \A i \in Available(polls) :
                      /\ monitor.timerQueries[i] \in gl'.deleted
                      /\ monitor.timerQueries[i] \notin Range(monitor'.timerQueries)
      ]_vars

----------------------------------------------------------------------------
\* The severity table of the lower-is-better metrics, for a change from old
\* (positive) by delta
LowerIsBetterTable(severity, delta, old) ==
    /\ delta * 100 > 50 * old => severity = "danger"
    /\ (delta * 100 > 25 * old /\ delta * 100 <= 50 * old) =>
          severity = "critical"
    /\ (delta * 100 > 10 * old /\ delta * 100 <= 25 * old) =>
          severity = "warning"
    /\ delta < 0 => severity \in {"excellent", "good"}

(* C20: for the lower-is-better metrics (ms, frameTime, drawCalls,         *)
(* triangles) getSeverity gives warning for an increase above 10%,         *)
(* critical above 25%, danger above 50%, and excellent or good for every   *)
(* decrease: in every recorded event, and for every update the monitor     *)
(* could receive next (also those too small to record an event).           *)
C20_LowerIsBetterSeverity ==
    /\ \A i \in DOMAIN monitor.changes :
          LET e == monitor.changes[i]
          IN  e.metric \in LowerIsBetter =>
                 LowerIsBetterTable(e.severity, e.newValue - e.oldValue,
                                    e.oldValue)
    /\ \A key \in LowerIsBetter, value \in SevNewValues :
          LET old == monitor.previousMetrics[key]
          IN  old > 0 =>
                 LowerIsBetterTable(getSeverity(key, value - old, old),
                                    value - old, old)

\* Events of all three worsening severities and of an improvement were
\* recorded for lower-is-better metrics
C20_Witness ==
    /\ \E i \in DOMAIN monitor.changes :
          /\ monitor.changes[i].metric = "ms"
          /\ monitor.changes[i].oldValue = 100
          /\ monitor.changes[i].newValue = 126
          /\ monitor.changes[i].severity = "critical"
    /\ \E i \in DOMAIN monitor.changes :
          /\ monitor.changes[i].metric = "triangles"
          /\ monitor.changes[i].newValue < monitor.changes[i].oldValue
          /\ monitor.changes[i].severity = "excellent"

----------------------------------------------------------------------------
(* C21: for fps getSeverity is the lower-is-better table with the sign of  *)
(* the delta inverted: in every recorded fps event a drop of more than 10% *)
(* is warning, more than 25% critical, more than 50% danger, and every     *)
(* increase is excellent or good.                                          *)
C21_FpsTableIsInverted ==
    \A i \in DOMAIN monitor.changes :
       LET e == monitor.changes[i]
       IN  e.metric = "fps" =>
              LowerIsBetterTable(e.severity, e.oldValue - e.newValue,
                                 e.oldValue)

----------------------------------------------------------------------------
(* C22: xrSessionInitTime is written exactly once per XR session, at the   *)
(* session's first frame callback: while a session is attached, the        *)
(* timeout has written it no time before the first monitorFrame call and   *)
(* exactly once from that call on.                                         *)
C22_InitTimeWrittenAtFirstFrame ==
    (monitor # Null /\ monitor.xrSession # 0) =>
        webxr.initTimeWrites = (IF webxr.frames = 0 THEN 0 ELSE 1)

----------------------------------------------------------------------------
(* C23: the XR context lives for one session: when the hook attaches a     *)
(* session with initializeXRSession, the monitor starts it with empty      *)
(* motion and controller-input histories and no last-frame timestamp.      *)
C23_NewSessionStartsEmpty ==
    [][(ShouldInitializeXR /\ WebXRFramePass) =>
         /\ monitor'.motionHistory = <<>>
         /\ monitor'.controllerInputHistory = <<>>
         /\ monitor'.lastXRFrameTime = 0
      ]_vars

----------------------------------------------------------------------------
(* C24: in every frame pass the snapshot is published after all of the     *)
(* pass's metric mutations: the metrics handed to updateGlobalMetrics by a *)
(* renderer pass are the monitor's metrics at the end of that pass.        *)
C24_PublishedAfterAllMutations ==
    [][IsRendererPass => globalMetrics' = monitor'.metrics]_vars

----------------------------------------------------------------------------
(* C25: a non-finite sample never enters the metrics: fps and every metric *)
(* written through updateMetric, the value it remembers and the values of  *)
(* the recorded events are finite.                                         *)
C25_NonFiniteDropped ==
    monitor # Null =>
        /\ IsFinite(monitor.metrics.fps)
        /\ \A key \in NonFiniteKeys :
              /\ IsFinite(monitor.metrics[key])
              /\ IsFinite(monitor.previousMetrics[key])
        /\ \A i \in DOMAIN monitor.changes :
              IsFinite(monitor.changes[i].newValue)

C27_NoQueryLeak ==
    monitor # Null =>
        /\ \A q \in 1..gl.created :
              (\E i \in DOMAIN monitor.timerQueries :
                   monitor.timerQueries[i] = q) \/ q \in gl.deleted
        /\ \A i \in DOMAIN monitor.timerQueries :
              monitor.timerQueries[i] \notin gl.deleted
        /\ "pollDeleted" \notin gl.misuse

(* C28: after dispose() no asynchronous source changes the metrics: not   *)
(* the scheduled latency measurement, the XR frame callback, the           *)
(* controller-lag timeout or the session-init timeout.                     *)
C28_DisposedMonitorIsQuiet ==
    [][(monitor # Null /\ disposeCalls > 0 /\ IsAsyncSource) =>
         monitor'.metrics = monitor.metrics]_vars

(* C29: a monitor has at most one XR frame-callback chain and at most one  *)
(* inputsourceschange listener on the presenting session, also after a     *)
(* second session was attached once the first had ended, so each XR frame  *)
(* is counted once.                                                        *)
C29_OneFrameChain ==
    /\ Len(webxr.frameCallbacks) <= 1
    /\ Len(SelectSeq(webxr.listeners, LAMBDA c : c = webxr.session)) <= 1

\* The second session is attached and one of its frames was counted
C29_Witness ==
    /\ monitor # Null /\ monitor.xrSession = 2
    /\ webxr.session = 2 /\ webxr.frames >= 1
    /\ Len(webxr.frameCallbacks) = 1
    /\ Len(webxr.listeners) = 2

(* C30: the store never leaves a monitor undisposed behind: whenever a     *)
(* mount effect replaced the monitor the store held, the replaced monitor  *)
(* had been disposed (its observers disconnected, its interval cleared).   *)
C30_ReplacedMonitorIsDisposed ==
    \A i \in DOMAIN replacedMonitors :
        /\ replacedMonitors[i].latencyTestInterval = "cleared"
        /\ replacedMonitors[i].performanceObserver # "observing"
        /\ replacedMonitors[i].gcObserver # "observing"

====
